---------------------------- MODULE Spec2Model ----------------------------
(***************************************************************************)
(* State-machine model of streamlit_app.py: the Open-Meteo client          *)
(* (fetch_weather), the hourly normaliser (make_hourly_df) and the script  *)
(* body (main) that Streamlit re-runs on every map interaction.            *)
(*                                                                         *)
(* Data representation                                                     *)
(*   - a JSON object / Python dict is a function whose DOMAIN is the set   *)
(*     of keys that are present; the empty dict is the empty function;     *)
(*   - a JSON array is a sequence;                                         *)
(*   - a time string "2024-01-DDTHH:00" is the pair <<DD, HH>> of its day  *)
(*     and hour digits; a timestamp is the number of hours elapsed since   *)
(*     2024-01-01T00:00;                                                   *)
(*   - a DataFrame is a record of its index (a sequence) and its columns   *)
(*     (a function from column names to sequences);                        *)
(*   - a call that raises is the record Raised(<exception name>).          *)
(***************************************************************************)
EXTENDS Integers, Sequences, FiniteSets, TLC

VARIABLES
    pc,            \* position of main: "idle" | "in_flight" | "render"; "call" | "called" in SpecHourly
    last_clicked,  \* the map widget's last_clicked (NoClick until the user clicks)
    rendered,      \* the st.* elements the current script run has drawn in col_data
    request,       \* the request handed to requests.get by the current run
    nreq,          \* number of requests.get calls made by the current run
    inflight,      \* number of requests sent and not yet answered
    answer,        \* what the provider / the network did with the request
    fetch_result,  \* "none" | "returned" | "raised": how fetch_weather ended in this run
    fetch_exc,     \* the exception fetch_weather raised, "" if none
    weather_json,  \* the value fetch_weather returned
    df_hourly,     \* the value make_hourly_df returned (or the exception it raised)
    norm_calls,    \* number of make_hourly_df calls made by the current run
    escaped        \* the exception that left main unhandled, "" if none

vars == <<pc, last_clicked, rendered, request, nreq, inflight, answer,
          fetch_result, fetch_exc, weather_json, df_hourly, norm_calls, escaped>>

(***************************************************************************)
(* Bounds of the model                                                     *)
(***************************************************************************)
\* longest array under `hourly` that the provider sends
MaxLen == 2

(***************************************************************************)
(* Program constants                                                       *)
(***************************************************************************)
OPEN_METEO_URL == "https://api.open-meteo.com/v1/forecast"

\* requests.get(..., timeout=10)
FetchTimeout == 10

\* df_hourly.iloc[:48]
PlotRows == 48

(***************************************************************************)
(* Dicts                                                                   *)
(***************************************************************************)
EmptyDict == [k \in {} |-> 0]

\* d.get(k, default)
Get(d, k, default) == IF k \in DOMAIN d THEN d[k] ELSE default

\* bool(d) for a dict
Truthy(d) == DOMAIN d # {}

(***************************************************************************)
(* Inputs: what the map widget and the provider can deliver                *)
(***************************************************************************)
NoClick == [set |-> FALSE, lat |-> 0, lng |-> 0]

\* Click coordinates in whole degrees.  Leaflet does not wrap the longitude
\* of a click on a repeated copy of the world (the map is created without
\* bounds or no_wrap), so 190 is a value the widget reports.
ClickLats == {-90, 37}
ClickLngs == {-180, 128, 190}
Clicks == {[set |-> TRUE, lat |-> a, lng |-> o] : a \in ClickLats, o \in ClickLngs}

\* Time strings <<DD, HH>>: two well-formed ones and "2024-01-01T24:00".
TimeStrings == {<<1, 0>>, <<1, 1>>, <<1, 24>>}

DataKeys == {"temperature_2m", "relative_humidity_2m", "precipitation",
             "wind_speed_10m", "foo"}

SampleBase(k) ==
    CASE k = "temperature_2m"       -> 10
      [] k = "relative_humidity_2m" -> 50
      [] k = "precipitation"        -> 0
      [] k = "wind_speed_10m"       -> 20
      [] OTHER                      -> 1

\* the array of n numbers sent under key k
SampleArray(k, n) == [i \in 1..n |-> SampleBase(k) + i - 1]

TimeArrays == UNION {[1..n -> TimeStrings] : n \in 0..MaxLen}

\* an optional value is <<>> (absent) or <<v>>
TimeChoice == {<<>>} \cup {<<t>> : t \in TimeArrays}

\* c[k] = 0: key k absent; c[k] = n + 1: key k carries an array of n entries
LenChoices(keys) ==
    {c \in [DataKeys -> 0..(MaxLen + 1)] : \A k \in DataKeys \ keys : c[k] = 0}

MkHourly(c, tc) ==
    LET present == {k \in DataKeys : c[k] > 0}
                   \cup (IF tc # <<>> THEN {"time"} ELSE {})
    IN  [k \in present |-> IF k = "time" THEN tc[1]
                                          ELSE SampleArray(k, c[k] - 1)]

\* every `hourly` object over the given data keys (the empty one included)
Hourlies(keys) == {MkHourly(c, tc) : c \in LenChoices(keys), tc \in TimeChoice}

CurrentBlocks ==
    { EmptyDict,
      [temperature |-> 21, windspeed |-> 5, winddirection |-> 270, weathercode |-> 3] }

CurrentChoice == {<<>>} \cup {<<b>> : b \in CurrentBlocks}

MkBody(cw, cu, ho) ==
    LET present == (IF cw # <<>> THEN {"current_weather"} ELSE {})
                   \cup (IF cu # <<>> THEN {"current"} ELSE {})
                   \cup (IF ho # <<>> THEN {"hourly"} ELSE {})
    IN  [k \in present |-> CASE k = "current_weather" -> cw[1]
                             [] k = "current"         -> cu[1]
                             [] OTHER                 -> ho[1]]

\* decoded bodies the provider sends to main
MainKeys == {"temperature_2m", "foo"}
Bodies ==
    {MkBody(cw, cu, ho) :
        cw \in CurrentChoice, cu \in CurrentChoice,
        ho \in {<<>>} \cup {<<h>> : h \in Hourlies(MainKeys)}}

\* responses handed to make_hourly_df on its own
HourlyResponses ==
    {MkBody(<<>>, <<>>, ho) : ho \in {<<>>} \cup {<<h>> : h \in Hourlies(DataKeys)}}

Statuses == {200, 204, 300, 404, 500}

\* the JSON body Open-Meteo sends with an error status
ErrorBody == [error |-> TRUE, reason |-> "Longitude must be in range of -180 to 180"]

\* a 200 carries any of Bodies; the other statuses carry {} or ErrorBody
BodiesOf(status) == IF status = 200 THEN Bodies ELSE {EmptyDict, ErrorBody}

NoAnswer == [kind |-> "none", status |-> 0, json_ok |-> FALSE, body |-> EmptyDict]

\* The outcome of the one HTTP exchange: no answer in time, no connection,
\* or a response with a status and a body that is JSON or is not.
Answers ==
    {[kind |-> k, status |-> 0, json_ok |-> FALSE, body |-> EmptyDict] :
        k \in {"timeout", "connection_error"}}
    \cup {[kind |-> "response", status |-> s, json_ok |-> FALSE, body |-> EmptyDict] :
        s \in Statuses}
    \cup UNION {{[kind |-> "response", status |-> s, json_ok |-> TRUE, body |-> b] :
                    b \in BodiesOf(s)} : s \in Statuses}

(***************************************************************************)
(* fetch_weather                                                           *)
(***************************************************************************)
NoRequest == [method |-> "", url |-> "", params |-> EmptyDict, timeout |-> 0]

FetchParams_Swapped(latitude, longitude) ==
    [latitude        |-> longitude,
     longitude       |-> latitude,
     current_weather |-> TRUE,
     hourly          |-> "temperature_2m,relative_humidity_2m,precipitation,wind_speed_10m",
     timezone        |-> "auto"]

\* params = {...}
FetchParams(latitude, longitude) ==
    [latitude        |-> latitude,
     longitude       |-> longitude,
     current_weather |-> TRUE,
     hourly          |-> "temperature_2m,relative_humidity_2m,precipitation,wind_speed_10m",
     timezone        |-> "auto"]

\* requests.get(OPEN_METEO_URL, params=params, timeout=10)
FetchRequest(latitude, longitude) ==
    [method  |-> "GET",
     url     |-> OPEN_METEO_URL,
     params  |-> FetchParams(latitude, longitude),
     timeout |-> FetchTimeout]

Returned(v) == [kind |-> "return", exc |-> "", value |-> v]
FetchRaised(e) == [kind |-> "raise", exc |-> e, value |-> EmptyDict]

\* resp.raise_for_status(): HTTPError for the 4xx and 5xx statuses only
RaisesForStatus(status) == status >= 400 /\ status < 600

FetchOutcome_NoStatusCheck(ans) ==
    IF ans.kind = "timeout" THEN FetchRaised("Timeout")
    ELSE IF ans.kind = "connection_error" THEN FetchRaised("ConnectionError")
    ELSE IF ~ans.json_ok THEN FetchRaised("JSONDecodeError")
    ELSE Returned(ans.body)

\* lines 26-28: requests.get raises on a timeout or a network failure,
\* raise_for_status raises on 4xx/5xx, resp.json() raises on a body that is
\* not JSON and otherwise returns the decoded body.
FetchOutcome(ans) ==
    IF ans.kind = "timeout" THEN FetchRaised("Timeout")
    ELSE IF ans.kind = "connection_error" THEN FetchRaised("ConnectionError")
    ELSE IF RaisesForStatus(ans.status) THEN FetchRaised("HTTPError")
    ELSE IF ~ans.json_ok THEN FetchRaised("JSONDecodeError")
    ELSE Returned(ans.body)


(***************************************************************************)
(* make_hourly_df                                                          *)
(***************************************************************************)
Table(index, cols) == [kind |-> "table", exc |-> "", index |-> index, cols |-> cols]
Raised(e) == [kind |-> "raise", exc |-> e, index |-> <<>>, cols |-> EmptyDict]

\* value of df_hourly before make_hourly_df has been called
NoTable == [kind |-> "none", exc |-> "", index |-> <<>>, cols |-> EmptyDict]

\* pd.DataFrame()
EmptyDataFrame == Table(<<>>, EmptyDict)

\* df.empty: no rows or no columns
IsEmpty(df) == Len(df.index) = 0 \/ DOMAIN df.cols = {}

\* the rows of s whose positions are in keep, in their original order
\* (used by the variant of set_index that drops repeated timestamps)
FilterRows(s, keep) ==
    LET F[i \in 0..Len(s)] ==
            IF i = 0 THEN <<>>
            ELSE IF i \in keep THEN Append(F[i - 1], s[i]) ELSE F[i - 1]
    IN  F[Len(s)]

\* pd.DataFrame(hourly) for a dict of arrays: one column per key and a
\* RangeIndex; arrays of different lengths raise ValueError.
DataFrame(hourly) ==
    LET lens == {Len(hourly[k]) : k \in DOMAIN hourly}
    IN  IF Cardinality(lens) > 1 THEN Raised("ValueError")
        ELSE LET n == IF lens = {} THEN 0 ELSE CHOOSE x \in lens : TRUE
             IN  Table([i \in 1..n |-> i - 1], hourly)

\* "2024-01-DDTHH:00" is a date-time iff DD is a day of January and HH an hour
WellFormed(t) == t[1] \in 1..31 /\ t[2] \in 0..23

\* hours since 2024-01-01T00:00
ParseTime(t) == (t[1] - 1) * 24 + t[2]

ToDatetime_Coerce(col) ==
    [ok  |-> TRUE,
     val |-> [i \in 1..Len(col) |-> IF WellFormed(col[i]) THEN ParseTime(col[i]) ELSE -1]]

\* pd.to_datetime(df["time"]): every string parsed, or the call raises
ToDatetime(col) ==
    IF \A i \in 1..Len(col) : WellFormed(col[i])
    THEN [ok |-> TRUE, val |-> [i \in 1..Len(col) |-> ParseTime(col[i])]]
    ELSE [ok |-> FALSE, val |-> <<>>]

SetIndexTime_Dedup(df) ==
    LET t == ToDatetime(df.cols["time"])
        keep == {i \in 1..Len(t.val) : \A j \in 1..(i - 1) : t.val[j] # t.val[i]}
    IN  IF ~t.ok THEN Raised("DateParseError")
        ELSE Table(FilterRows(t.val, keep),
                   [k \in DOMAIN df.cols \ {"time"} |-> FilterRows(df.cols[k], keep)])

\* df["time"] = pd.to_datetime(df["time"]); df = df.set_index("time")
SetIndexTime(df) ==
    LET t == ToDatetime(df.cols["time"])
    IN  IF ~t.ok THEN Raised("DateParseError")
        ELSE Table(t.val, [k \in DOMAIN df.cols \ {"time"} |-> df.cols[k]])

rename_map ==
    [temperature_2m       |-> "Temperature (°C)",
     relative_humidity_2m |-> "Humidity (%)",
     precipitation        |-> "Precipitation (mm)",
     wind_speed_10m       |-> "Wind speed (km/h)"]

\* the name a column has after df.rename(columns=...)
NewName(k) == IF k \in DOMAIN rename_map THEN rename_map[k] ELSE k

RenameColumns_Reindexed(df) ==
    LET names == {NewName(k) : k \in DOMAIN df.cols \cup DOMAIN rename_map}
    IN  Table(df.index,
              [c \in names |->
                  IF \E k \in DOMAIN df.cols : NewName(k) = c
                  THEN df.cols[CHOOSE k \in DOMAIN df.cols : NewName(k) = c]
                  ELSE [i \in 1..Len(df.index) |-> 0]])

\* df.rename(columns={k: v for k, v in rename_map.items() if k in df.columns})
RenameColumns(df) ==
    LET names == {NewName(k) : k \in DOMAIN df.cols}
    IN  Table(df.index,
              [c \in names |-> df.cols[CHOOSE k \in DOMAIN df.cols : NewName(k) = c]])

make_hourly_df_Subscript(json) ==
    IF "hourly" \notin DOMAIN json THEN Raised("KeyError")
    ELSE IF ~Truthy(json["hourly"]) THEN EmptyDataFrame
    ELSE LET df == DataFrame(json["hourly"])
         IN  IF df.kind = "raise" THEN df
             ELSE LET ix == IF "time" \in DOMAIN df.cols THEN SetIndexTime(df) ELSE df
                  IN  IF ix.kind = "raise" THEN ix ELSE RenameColumns(ix)

make_hourly_df(json) ==
    LET hourly == Get(json, "hourly", EmptyDict)
    IN  IF ~Truthy(hourly) THEN EmptyDataFrame
        ELSE LET df == DataFrame(hourly)
             IN  IF df.kind = "raise" THEN df
                 ELSE LET ix == IF "time" \in DOMAIN df.cols THEN SetIndexTime(df) ELSE df
                      IN  IF ix.kind = "raise" THEN ix ELSE RenameColumns(ix)

(***************************************************************************)
(* main                                                                    *)
(***************************************************************************)
Min(a, b) == IF a < b THEN a ELSE b

\* df.iloc[:n] and df.head(n)
HeadRows(df, n) ==
    Table(SubSeq(df.index, 1, Min(n, Len(df.index))),
          [c \in DOMAIN df.cols |-> SubSeq(df.cols[c], 1, Min(n, Len(df.cols[c])))])

\* weather_json.get("current_weather") or weather_json.get("current", {})
CurrentOf(json) ==
    LET first == Get(json, "current_weather", EmptyDict)
    IN  IF Truthy(first) THEN first ELSE Get(json, "current", EmptyDict)

\* lines 134-154
CurrentElements(current) ==
    IF Truthy(current)
    THEN {"current_header", "metric_temperature", "metric_windspeed", "metric_winddirection"}
         \cup (IF "weathercode" \in DOMAIN current THEN {"caption_weathercode"} ELSE {})
    ELSE {"warning_current"}

ChartLabels == {rename_map[k] : k \in DOMAIN rename_map}

\* lines 160-187
HourlyElements(df) ==
    IF IsEmpty(df) THEN {"info_hourly"}
    ELSE {"tabs", "raw_table"}
         \cup {c \in ChartLabels : c \in DOMAIN HeadRows(df, PlotRows).cols}

\* what every script run starts from
NewRun ==
    /\ answer' = NoAnswer
    /\ fetch_result' = "none"
    /\ fetch_exc' = ""
    /\ weather_json' = EmptyDict
    /\ df_hourly' = NoTable
    /\ norm_calls' = 0
    /\ escaped' = ""

Init ==
    /\ pc = "idle"
    /\ last_clicked = NoClick
    /\ rendered = {}
    /\ request = NoRequest
    /\ nreq = 0
    /\ inflight = 0
    /\ answer = NoAnswer
    /\ fetch_result = "none"
    /\ fetch_exc = ""
    /\ weather_json = EmptyDict
    /\ df_hourly = NoTable
    /\ norm_calls = 0
    /\ escaped = ""

\* A script run while nothing has been clicked: lines 101-113.
MainNoClick ==
    /\ pc = "idle"
    /\ ~last_clicked.set
    /\ NewRun
    /\ rendered' = {"info_select"}
    /\ request' = NoRequest
    /\ nreq' = 0
    /\ UNCHANGED <<pc, last_clicked, inflight>>

\* The user clicks the map and the script runs up to the blocking
\* requests.get inside fetch_weather: lines 101-127 and 18-26.
MainClick(click) ==
    /\ pc = "idle"
    /\ last_clicked' = click
    /\ NewRun
    /\ rendered' = {"selected_position"}
    /\ request' = FetchRequest(click.lat, click.lng)
    /\ nreq' = 1
    /\ inflight' = inflight + 1
    /\ pc' = "in_flight"

\* requests.get returns and fetch_weather returns the decoded body.
FetchReturns ==
    /\ pc = "in_flight"
    /\ \E ans \in Answers :
        /\ FetchOutcome(ans).kind = "return"
        /\ answer' = ans
        /\ inflight' = inflight - 1
        /\ fetch_result' = "returned"
        /\ weather_json' = FetchOutcome(ans).value
        /\ pc' = "render"
        /\ UNCHANGED <<last_clicked, rendered, request, nreq, fetch_exc, df_hourly,
                       norm_calls, escaped>>

FetchRaises_FallThrough ==
    /\ pc = "in_flight"
    /\ \E ans \in Answers :
        /\ FetchOutcome(ans).kind = "raise"
        /\ answer' = ans
        /\ inflight' = inflight - 1
        /\ fetch_result' = "raised"
        /\ fetch_exc' = FetchOutcome(ans).exc
        /\ rendered' = rendered \cup {"error"}
        /\ pc' = "render"
        /\ UNCHANGED <<last_clicked, request, nreq, weather_json, df_hourly,
                       norm_calls, escaped>>

\* fetch_weather raises; main's except clause shows the error and returns:
\* lines 128-130.
FetchRaises ==
    /\ pc = "in_flight"
    /\ \E ans \in Answers :
        /\ FetchOutcome(ans).kind = "raise"
        /\ answer' = ans
        /\ inflight' = inflight - 1
        /\ fetch_result' = "raised"
        /\ fetch_exc' = FetchOutcome(ans).exc
        /\ rendered' = rendered \cup {"error"}
        /\ pc' = "idle"
        /\ UNCHANGED <<last_clicked, request, nreq, weather_json, df_hourly,
                       norm_calls, escaped>>

\* The rest of the script: the current-weather section, then the hourly
\* section.  make_hourly_df is called outside any try block, so an
\* exception it raises ends the run and leaves main.  Lines 132-187.
MainRender ==
    /\ pc = "render"
    /\ LET current == CurrentOf(weather_json)
           df == make_hourly_df(weather_json)
       IN  /\ norm_calls' = norm_calls + 1
           /\ df_hourly' = df
           /\ escaped' = IF df.kind = "raise" THEN df.exc ELSE ""
           /\ rendered' = rendered \cup CurrentElements(current) \cup {"hourly_header"}
                          \cup (IF df.kind = "raise" THEN {} ELSE HourlyElements(df))
    /\ pc' = "idle"
    /\ UNCHANGED <<last_clicked, request, nreq, inflight, answer, fetch_result,
                   fetch_exc, weather_json>>

Next ==
    \/ MainNoClick
    \/ \E click \in Clicks : MainClick(click)
    \/ FetchReturns
    \/ FetchRaises
    \/ MainRender

Spec == Init /\ [][Next]_vars

(***************************************************************************)
(* make_hourly_df on its own: the response is drawn from HourlyResponses   *)
(* and the function is applied to it once.                                 *)
(***************************************************************************)
InitHourly ==
    /\ pc = "call"
    /\ last_clicked = NoClick
    /\ rendered = {}
    /\ request = NoRequest
    /\ nreq = 0
    /\ inflight = 0
    /\ answer = NoAnswer
    /\ fetch_result = "none"
    /\ fetch_exc = ""
    /\ weather_json \in HourlyResponses
    /\ df_hourly = NoTable
    /\ norm_calls = 0
    /\ escaped = ""

NormalizeCall ==
    /\ pc = "call"
    /\ df_hourly' = make_hourly_df(weather_json)
    /\ norm_calls' = norm_calls + 1
    /\ pc' = "called"
    /\ UNCHANGED <<last_clicked, rendered, request, nreq, inflight, answer,
                   fetch_result, fetch_exc, weather_json, escaped>>

NextHourly == NormalizeCall

SpecHourly == InitHourly /\ [][NextHourly]_vars

(***************************************************************************)
(* Properties                                                              *)
(***************************************************************************)
\* fetch_weather has ended in the current run
FetchEnded == fetch_result # "none"

\* the exchange did not produce a response at all
NoResponse == answer.kind \in {"timeout", "connection_error"}

\* C1 as stated: whenever the provider answers with a status outside 200..299,
\* or the request times out or fails at network level, fetch_weather ends by
\* raising, after exactly one request.
C1_AsStated ==
    (FetchEnded /\ (NoResponse \/ (answer.kind = "response" /\ answer.status \notin 200..299)))
        => (fetch_result = "raised" /\ nreq = 1)

\* C1 amended: whenever the provider answers with a 4xx or 5xx status, or the
\* request times out or fails at network level, fetch_weather ends by raising
\* and returns no body, after exactly one request (no retry).
C1_Amended ==
    (FetchEnded /\ (NoResponse \/ (answer.kind = "response" /\ answer.status \in 400..599)))
        => /\ fetch_result = "raised"
           /\ fetch_exc \in {"Timeout", "ConnectionError", "HTTPError"}
           /\ ~Truthy(weather_json)
           /\ nreq = 1

C1_Witness ==
    /\ fetch_result = "raised"
    /\ answer.kind = "response"
    /\ answer.status = 404
    /\ answer.json_ok
    /\ fetch_exc = "HTTPError"
    /\ nreq = 1

\* C2: the one GET carries exactly latitude, longitude (the clicked values),
\* current_weather=true, the fixed hourly list and timezone=auto; and on a 200
\* with a JSON body fetch_weather returns the decoded body unchanged.
C2_ParamsAndBody ==
    /\ nreq > 0 =>
        /\ nreq = 1
        /\ request.method = "GET"
        /\ request.url = "https://api.open-meteo.com/v1/forecast"
        /\ DOMAIN request.params =
              {"latitude", "longitude", "current_weather", "hourly", "timezone"}
        /\ request.params["latitude"] = last_clicked.lat
        /\ request.params["longitude"] = last_clicked.lng
        /\ request.params["current_weather"] = TRUE
        /\ request.params["hourly"] =
              "temperature_2m,relative_humidity_2m,precipitation,wind_speed_10m"
        /\ request.params["timezone"] = "auto"
    /\ (FetchEnded /\ answer.kind = "response" /\ answer.status = 200 /\ answer.json_ok)
        => (fetch_result = "returned" /\ weather_json = answer.body)

C2_Witness ==
    /\ fetch_result = "returned"
    /\ answer.status = 200
    /\ last_clicked.lat = 37
    /\ last_clicked.lng = 128
    /\ "hourly" \in DOMAIN weather_json
    /\ "current_weather" \in DOMAIN weather_json
    /\ weather_json = answer.body

\* the `hourly` object of the response handed to make_hourly_df ({} if absent)
GivenHourly == IF "hourly" \in DOMAIN weather_json THEN weather_json["hourly"] ELSE EmptyDict

\* C3: a response without `hourly`, or with an empty `hourly`, yields the empty
\* table and no error.
C3_EmptyTable ==
    (pc = "called" /\ DOMAIN GivenHourly = {})
        => /\ df_hourly.kind = "table"
           /\ Len(df_hourly.index) = 0
           /\ DOMAIN df_hourly.cols = {}

C3_Witness ==
    /\ pc = "called"
    /\ "hourly" \in DOMAIN weather_json
    /\ DOMAIN weather_json["hourly"] = {}
    /\ df_hourly.kind = "table"
    /\ Len(df_hourly.index) = 0

\* the display label the specification gives each field
ExpectedLabel(k) ==
    CASE k = "temperature_2m"       -> "Temperature (°C)"
      [] k = "relative_humidity_2m" -> "Humidity (%)"
      [] k = "precipitation"        -> "Precipitation (mm)"
      [] k = "wind_speed_10m"       -> "Wind speed (km/h)"
      [] OTHER                      -> k

\* all arrays under h have n entries
Parallel(h, n) == \A k \in DOMAIN h : Len(h[k]) = n

\* every entry of the time array (if there is one) is a date-time
TimesWellFormed(h) ==
    "time" \in DOMAIN h => \A i \in 1..Len(h["time"]) : WellFormed(h["time"][i])

\* C4: a non-empty `hourly` of parallel arrays of length n (its time strings,
\* if any, well formed) yields a table of exactly n rows, row i carrying entry
\* i of every field and indexed by the i-th time, in the provider's order.
C4_RowsInOrder ==
    \A n \in 0..(MaxLen + 1) :
        (/\ pc = "called"
         /\ DOMAIN GivenHourly # {}
         /\ Parallel(GivenHourly, n)
         /\ TimesWellFormed(GivenHourly))
        => /\ df_hourly.kind = "table"
           /\ Len(df_hourly.index) = n
           /\ \A k \in DOMAIN GivenHourly \ {"time"} :
                 /\ ExpectedLabel(k) \in DOMAIN df_hourly.cols
                 /\ Len(df_hourly.cols[ExpectedLabel(k)]) = n
                 /\ \A i \in 1..n : df_hourly.cols[ExpectedLabel(k)][i] = GivenHourly[k][i]
           /\ \A i \in 1..n :
                 df_hourly.index[i] =
                     IF "time" \in DOMAIN GivenHourly
                     THEN (GivenHourly["time"][i][1] - 1) * 24 + GivenHourly["time"][i][2]
                     ELSE i - 1

C4_Witness ==
    /\ pc = "called"
    /\ "time" \in DOMAIN GivenHourly
    /\ GivenHourly["time"] = <<(<<1, 1>>), (<<1, 1>>)>>
    /\ "temperature_2m" \in DOMAIN GivenHourly
    /\ df_hourly.kind = "table"
    /\ df_hourly.index = <<1, 1>>
    /\ df_hourly.cols["Temperature (°C)"] = <<10, 11>>

\* C5: the columns of the table are exactly the non-time fields present, the
\* four known ones under their display labels, the others under their own
\* name; an absent field gives no column.
C5_Columns ==
    (pc = "called" /\ df_hourly.kind = "table")
        => DOMAIN df_hourly.cols = {ExpectedLabel(k) : k \in DOMAIN GivenHourly \ {"time"}}

C5_Witness ==
    /\ pc = "called"
    /\ DOMAIN GivenHourly = {"time", "temperature_2m", "wind_speed_10m", "foo"}
    /\ df_hourly.kind = "table"
    /\ Len(df_hourly.index) = 2
    /\ DOMAIN df_hourly.cols = {"Temperature (°C)", "Wind speed (km/h)", "foo"}

\* some entry of the time array is not a date-time
HasMalformedTime(h) ==
    /\ "time" \in DOMAIN h
    /\ \E i \in 1..Len(h["time"]) : ~WellFormed(h["time"][i])

\* C6: one malformed time string makes the whole derivation fail: an error is
\* raised and no table, not even a partial one, is returned.
C6_ParseError ==
    (pc = "called" /\ HasMalformedTime(GivenHourly))
        => /\ df_hourly.kind = "raise"
           /\ df_hourly.exc \in {"DateParseError", "ValueError"}
           /\ (Parallel(GivenHourly, Len(GivenHourly["time"])) => df_hourly.exc = "DateParseError")
           /\ Len(df_hourly.index) = 0
           /\ DOMAIN df_hourly.cols = {}

C6_Witness ==
    /\ pc = "called"
    /\ DOMAIN GivenHourly = {"time", "temperature_2m"}
    /\ GivenHourly["time"] = <<(<<1, 0>>), (<<1, 24>>)>>
    /\ Len(GivenHourly["temperature_2m"]) = 2
    /\ df_hourly.kind = "raise"
    /\ df_hourly.exc = "DateParseError"

\* the elements that show weather data
WeatherContent == {"current_header", "metric_temperature", "metric_windspeed",
                   "metric_winddirection", "caption_weathercode", "tabs", "raw_table"}
                  \cup ChartLabels

\* C7: an error of fetch_weather and an error of the hourly normalisation are
\* both caught by main, which shows an error message and renders no weather
\* content after it; neither leaves main unhandled.
C7_ErrorsHandled ==
    /\ fetch_result = "raised"
        => ("error" \in rendered /\ rendered \cap WeatherContent = {} /\ escaped = "")
    /\ (df_hourly.kind = "raise" /\ df_hourly.exc = "DateParseError")
        => ("error" \in rendered /\ escaped = "")

\* the response carries hourly data: parallel arrays with at least one entry
\* of at least one data field
HasHourlyData(json) ==
    /\ "hourly" \in DOMAIN json
    /\ \E k \in DOMAIN json["hourly"] \ {"time"} :
          /\ Len(json["hourly"][k]) > 0
          /\ Parallel(json["hourly"], Len(json["hourly"][k]))

\* the response carries a non-empty current block
HasCurrent(json) ==
    \/ ("current_weather" \in DOMAIN json /\ DOMAIN json["current_weather"] # {})
    \/ ("current" \in DOMAIN json /\ DOMAIN json["current"] # {})

C9_CoordinateRange ==
    nreq > 0 =>
        /\ request.params["latitude"] \in -90..90
        /\ request.params["longitude"] \in -180..180

\* C10: no request without a click, at most one request per run, at most one
\* in flight, and make_hourly_df is called only after the request has returned
\* successfully: never while it is in flight, never after it failed.
C10_FetchThenNormalize ==
    /\ ~last_clicked.set => (nreq = 0 /\ inflight = 0)
    /\ nreq <= 1
    /\ inflight \in {0, 1}
    /\ inflight = 1 <=> pc = "in_flight"
    /\ pc = "in_flight" => (norm_calls = 0 /\ fetch_result = "none")
    /\ (pc = "render" \/ norm_calls > 0) => (fetch_result = "returned" /\ inflight = 0)
    /\ fetch_result = "raised" => norm_calls = 0
    /\ norm_calls <= 1

C10_Witness ==
    /\ pc = "idle"
    /\ last_clicked.set
    /\ nreq = 1
    /\ fetch_result = "returned"
    /\ norm_calls = 1
    /\ df_hourly.kind = "table"
    /\ "tabs" \in rendered

=============================================================================
